---- MODULE Spec2Model ----
(***************************************************************************)
(* Model of chunk_document.py (document-summarizer): text extraction,      *)
(* section boundary detection and the structure-aware / token-based        *)
(* chunkers.  Text is a sequence of one-character strings, so lengths,     *)
(* token estimates, sentence splitting and joins are computed as the       *)
(* Python code computes them.                                              *)
(***************************************************************************)
EXTENDS Integers, Sequences, FiniteSets, TLC

VARIABLES sp, fl, pdf, dir

vars == <<sp, fl, pdf, dir>>

\* A component that a specification does not exercise stays in this state.
Idle == [pc |-> "idle"]

(***************************************************************************)
(* Bounds of the model.                                                    *)
(***************************************************************************)
\* longest input of the sentence splitter, in atoms (sentence + separator)
MaxAtoms == 4
\* max_tokens of the sentence splitter ranges over 1..MaxBudget
MaxBudget == 2
\* overlap ranges over 0..MaxOverlap
MaxOverlap == 2

(***************************************************************************)
(* Text helpers.                                                           *)
(***************************************************************************)
Rep(c, n) == [i \in 1..n |-> c]

RECURSIVE Flatten(_)
Flatten(ss) == IF ss = <<>> THEN <<>> ELSE Head(ss) \o Flatten(Tail(ss))

RECURSIVE Join(_, _)
\* sep.join(parts)
Join(parts, sep) ==
    IF parts = <<>> THEN <<>>
    ELSE IF Len(parts) = 1 THEN parts[1]
    ELSE parts[1] \o sep \o Join(Tail(parts), sep)

\* Python's \s and str.strip() whitespace, over the model's alphabet
IsSpace(c) == c \in {" ", "\n", "\f"}

\* the sentence terminators of the split pattern [.!?]
IsTerm(c) == c \in {".", "!", "?"}

\* text.strip() is empty
IsBlank(t) == \A i \in 1..Len(t) : IsSpace(t[i])

\* the approximate estimator (no exact tokenizer): len(text) // 4
count_tokens(text) == Len(text) \div 4

RECURSIVE SumTokens(_)
SumTokens(parts) ==
    IF parts = <<>> THEN 0 ELSE count_tokens(Head(parts)) + SumTokens(Tail(parts))

(***************************************************************************)
(* re.split(r'(?<=[.!?])\s+', text): a split point is a maximal run of     *)
(* whitespace that directly follows a terminator.                          *)
(***************************************************************************)
IsSplitPoint(t, p) == p >= 2 /\ p <= Len(t) /\ IsSpace(t[p]) /\ IsTerm(t[p - 1])

\* last position of the whitespace run that starts at p (\s+ is greedy)
RunEnd(t, p) ==
    CHOOSE q \in p..Len(t) :
        /\ \A k \in p..q : IsSpace(t[k])
        /\ (q = Len(t) \/ ~IsSpace(t[q + 1]))

RECURSIVE SplitFrom(_, _)
\* the pieces of t from position `from` on
SplitFrom(t, from) ==
    IF \E p \in from..Len(t) : IsSplitPoint(t, p)
    THEN LET p == CHOOSE x \in from..Len(t) :
                      /\ IsSplitPoint(t, x)
                      /\ \A y \in from..(x - 1) : ~IsSplitPoint(t, y)
         IN  <<SubSeq(t, from, p - 1)>> \o SplitFrom(t, RunEnd(t, p) + 1)
    ELSE <<SubSeq(t, from, Len(t))>>

SplitSentences(text) == SplitFrom(text, 1)

(***************************************************************************)
(* split_text_by_tokens                                                    *)
(***************************************************************************)
RECURSIVE OverlapWalk(_, _, _, _)
\* for s in reversed(current): stop at the first sentence that would exceed
\* the overlap budget; i is the position of s
OverlapWalk(current, i, acc, overlap) ==
    IF i = 0 THEN acc
    ELSE LET st == count_tokens(current[i])
         IN  IF acc.tokens + st > overlap THEN acc
             ELSE OverlapWalk(current, i - 1,
                              [parts |-> <<current[i]>> \o acc.parts,
                               tokens |-> acc.tokens + st], overlap)

\* the walk with `>=` in place of `>` in its break test
OverlapSeedOffByOne(current, overlap) ==
    OverlapWalk(current, Len(current), [parts |-> <<>>, tokens |-> 0], overlap - 1)

OverlapSeed(current, overlap) ==
    OverlapWalk(current, Len(current), [parts |-> <<>>, tokens |-> 0], overlap)

\* the splitter's loop state before the first sentence.  `parts`, `seeds`,
\* `ends` and `n` are history: the `current` list behind each emitted chunk,
\* the overlap_parts each chunk started from, the number of sentences
\* consumed when each chunk was emitted, and the number consumed so far
SplitInit ==
    [chunks |-> <<>>, current |-> <<>>, current_tokens |-> 0,
     parts |-> <<>>, seeds |-> <<>>, seed |-> <<>>, ends |-> <<>>, n |-> 0]

\* one iteration of `for sentence in sentences`
SplitStep(s, sentence, max_tokens, overlap) ==
    LET stokens == count_tokens(sentence)
        ov == OverlapSeed(s.current, overlap)
        b == IF s.current_tokens + stokens > max_tokens /\ s.current # <<>>
             THEN [chunks |-> Append(s.chunks, Join(s.current, <<" ">>)),
                   current |-> ov.parts,
                   current_tokens |-> ov.tokens,
                   parts |-> Append(s.parts, s.current),
                   seeds |-> Append(s.seeds, s.seed),
                   seed |-> ov.parts,
                   ends |-> Append(s.ends, s.n),
                   n |-> s.n]
             ELSE s
    IN  [b EXCEPT !.current = Append(@, sentence),
                  !.current_tokens = @ + stokens,
                  !.n = @ + 1]

\* the loop's state returned without the last flush
SplitNoFlush(s) == s

\* after the loop: flush `current`
SplitFlush(s) ==
    IF s.current # <<>>
    THEN [s EXCEPT !.chunks = Append(@, Join(s.current, <<" ">>)),
                   !.parts = Append(@, s.current),
                   !.seeds = Append(@, s.seed),
                   !.ends = Append(@, s.n)]
    ELSE s

RECURSIVE SplitLoop(_, _, _, _)
\* for sentence in sentences, from the state s reached after s.n of them
SplitLoop(s, sentences, max_tokens, overlap) ==
    IF s.n >= Len(sentences) THEN s
    ELSE SplitLoop(SplitStep(s, sentences[s.n + 1], max_tokens, overlap),
                   sentences, max_tokens, overlap)

\* the splitter's state when it returns
SplitTrace(text, max_tokens, overlap) ==
    SplitFlush(SplitLoop(SplitInit, SplitSentences(text), max_tokens, overlap))

\* return chunks if chunks else [text]
split_text_by_tokens(text, max_tokens, overlap) ==
    LET s == SplitTrace(text, max_tokens, overlap)
    IN  IF s.chunks # <<>> THEN s.chunks ELSE <<text>>

(***************************************************************************)
(* The sentence splitter run step by step on bounded inputs.               *)
(***************************************************************************)
\* a sentence of 3, 4 or 8 characters with its separator, and a bare word
Atoms ==
    { <<"a", "a", ".", " ">>,
      <<"a", "a", "a", "!", "\n">>,
      Rep("a", 7) \o <<"?", " ", " ">>,
      <<"a", "a", "a", " ">> }

RECURSIVE SeqsUpTo(_, _)
\* the sequences over S of length 1..n
SeqsUpTo(S, n) ==
    IF n = 0 THEN {}
    ELSE LET shorter == SeqsUpTo(S, n - 1)
         IN  {<<x>> : x \in S} \cup shorter
                \cup {Append(q, x) : q \in shorter, x \in S}

\* the text without its trailing whitespace
RECURSIVE RStrip(_)
RStrip(t) ==
    IF t # <<>> /\ IsSpace(t[Len(t)]) THEN RStrip(SubSeq(t, 1, Len(t) - 1)) ELSE t

SplitInputs ==
    {Flatten(q) : q \in SeqsUpTo(Atoms, MaxAtoms)}
        \cup {RStrip(Flatten(q)) : q \in SeqsUpTo(Atoms, MaxAtoms)}

InitSplit ==
    /\ \E text \in SplitInputs, max_tokens \in 1..MaxBudget, overlap \in 0..MaxOverlap :
         sp = [pc |-> "loop", text |-> text, max_tokens |-> max_tokens,
               overlap |-> overlap, sentences |-> SplitSentences(text),
               i |-> 1, s |-> SplitInit, result |-> <<>>]
    /\ fl = Idle /\ pdf = Idle /\ dir = Idle

\* the body of the for loop, for sentence i
SplitIterate ==
    /\ sp.pc = "loop"
    /\ sp.i <= Len(sp.sentences)
    /\ sp' = [sp EXCEPT !.s = SplitStep(sp.s, sp.sentences[sp.i],
                                        sp.max_tokens, sp.overlap),
                        !.i = @ + 1]
    /\ UNCHANGED <<fl, pdf, dir>>

\* the loop is exhausted: flush and return
SplitReturn ==
    /\ sp.pc = "loop"
    /\ sp.i > Len(sp.sentences)
    /\ LET s == SplitFlush(sp.s)
       IN  sp' = [sp EXCEPT !.pc = "done", !.s = s,
                            !.result = IF s.chunks # <<>> THEN s.chunks
                                       ELSE <<sp.text>>]
    /\ UNCHANGED <<fl, pdf, dir>>

NextSplit == SplitIterate \/ SplitReturn

SpecSplit == InitSplit /\ [][NextSplit]_vars

(***************************************************************************)
(* count_tokens on its own (SpecCount).                                    *)
(***************************************************************************)
\* the texts the estimator is called with: the empty string, runs of one to
\* 2 * MaxAtoms characters, and the splitter's inputs
CountInputs == {Rep("a", n) : n \in 0..(2 * MaxAtoms)} \cup SplitInputs

InitCount ==
    /\ \E text \in CountInputs : sp = [pc |-> "call", text |-> text, tokens |-> -1]
    /\ fl = Idle /\ pdf = Idle /\ dir = Idle

\* the call count_tokens(text)
CountTokens ==
    /\ sp.pc = "call"
    /\ sp' = [sp EXCEPT !.pc = "counted", !.tokens = count_tokens(sp.text)]
    /\ UNCHANGED <<fl, pdf, dir>>

NextCount == CountTokens

SpecCount == InitCount /\ [][NextCount]_vars

(***************************************************************************)
(* Character classes and string helpers of the extraction and detection    *)
(* code.                                                                   *)
(***************************************************************************)
LowerLetters ==
    <<"a", "b", "c", "d", "e", "f", "g", "h", "i", "j", "k", "l", "m",
      "n", "o", "p", "q", "r", "s", "t", "u", "v", "w", "x", "y", "z">>

UpperLetters ==
    <<"A", "B", "C", "D", "E", "F", "G", "H", "I", "J", "K", "L", "M",
      "N", "O", "P", "Q", "R", "S", "T", "U", "V", "W", "X", "Y", "Z">>

DigitChars == <<"0", "1", "2", "3", "4", "5", "6", "7", "8", "9">>

Range(f) == {f[i] : i \in DOMAIN f}

DigitSet == Range(DigitChars)
UpperSet == Range(UpperLetters)
LowerSet == Range(LowerLetters)

IsDigit(c) == c \in DigitSet
IsUpper(c) == c \in UpperSet
IsLower(c) == c \in LowerSet
IsRoman(c) == c \in {"I", "V", "X", "L", "C", "D", "M"}
IsHash(c) == c = "#"

\* str.upper() of one character
UpperChar(c) ==
    IF IsLower(c)
    THEN UpperLetters[CHOOSE i \in DOMAIN LowerLetters : LowerLetters[i] = c]
    ELSE c

\* text.upper()
Upper(t) == [i \in 1..Len(t) |-> UpperChar(t[i])]

\* str.lower() of one character
LowerChar(c) ==
    IF IsUpper(c)
    THEN LowerLetters[CHOOSE i \in DOMAIN UpperLetters : UpperLetters[i] = c]
    ELSE c

\* text.lower()
Lower(t) == [i \in 1..Len(t) |-> LowerChar(t[i])]

\* Path(name).suffix: from the last dot on, when that dot is neither the
\* first nor the last character of the name
Suffix(name) ==
    LET dots == {i \in 1..Len(name) : name[i] = "."}
    IN  IF dots = {} THEN <<>>
        ELSE LET d == CHOOSE i \in dots : \A j \in dots : j <= i
             IN  IF d > 1 /\ d < Len(name) THEN SubSeq(name, d, Len(name)) ELSE <<>>

\* ext = Path(filepath).suffix.lower()
Ext(name) == Lower(Suffix(name))

DotPdf == <<".", "p", "d", "f">>
DotDocx == <<".", "d", "o", "c", "x">>
DotTxt == <<".", "t", "x", "t">>
DotMd == <<".", "m", "d">>
DotMarkdown == <<".", "m", "a", "r", "k", "d", "o", "w", "n">>

\* str(n) for n >= 0
RECURSIVE IntToStr(_)
IntToStr(n) ==
    IF n < 10 THEN <<DigitChars[n + 1]>>
    ELSE IntToStr(n \div 10) \o <<DigitChars[(n % 10) + 1]>>

\* first position >= from whose character is not whitespace (Len + 1 if none)
SkipSpace(t, from) ==
    CHOOSE q \in from..(Len(t) + 1) :
        /\ \A k \in from..(q - 1) : IsSpace(t[k])
        /\ (q = Len(t) + 1 \/ ~IsSpace(t[q]))

SkipDigits(t, from) ==
    CHOOSE q \in from..(Len(t) + 1) :
        /\ \A k \in from..(q - 1) : IsDigit(t[k])
        /\ (q = Len(t) + 1 \/ ~IsDigit(t[q]))

SkipRoman(t, from) ==
    CHOOSE q \in from..(Len(t) + 1) :
        /\ \A k \in from..(q - 1) : IsRoman(t[k])
        /\ (q = Len(t) + 1 \/ ~IsRoman(t[q]))

SkipHashes(t, from) ==
    CHOOSE q \in from..(Len(t) + 1) :
        /\ \A k \in from..(q - 1) : IsHash(t[k])
        /\ (q = Len(t) + 1 \/ ~IsHash(t[q]))

\* text.strip()
Strip(t) ==
    LET a == SkipSpace(t, 1)
    IN  IF a > Len(t) THEN <<>> ELSE RStrip(SubSeq(t, a, Len(t)))

\* text[:n]
Prefix(t, n) == SubSeq(t, 1, IF Len(t) < n THEN Len(t) ELSE n)

\* text.startswith(w)
StartsWith(t, w) == Len(t) >= Len(w) /\ SubSeq(t, 1, Len(w)) = w

\* \s+\S at position p: whitespace, then a character that is not whitespace
SpaceThenText(t, p) ==
    /\ p <= Len(t) /\ IsSpace(t[p])
    /\ SkipSpace(t, p) <= Len(t)

\* re.sub(r'\s+', ' ', t) from position p on: every run of whitespace
\* becomes one space
CollapseFrom(t, p) ==
    LET positions == [k \in 1..(Len(t) - p + 1) |-> p + k - 1]
        kept == SelectSeq(positions,
                          LAMBDA q : ~IsSpace(t[q]) \/ q = p \/ ~IsSpace(t[q - 1]))
    IN  [k \in 1..Len(kept) |-> IF IsSpace(t[kept[k]]) THEN " " ELSE t[kept[k]]]

(***************************************************************************)
(* TextBlock and the text-file extractor.  Confidences are in hundredths.  *)
(***************************************************************************)
TextBlock(text, page, heading_level, style, confidence) ==
    [text |-> text, page |-> page, heading_level |-> heading_level,
     style |-> style, confidence |-> confidence]

BlankBlock == TextBlock(<<"\n">>, 0, 0, "blank", 0)

\* MD_HEADING_RE = ^(#{1,6})\s+(.+): the number of hashes matched, 0 if the
\* line does not match
MdHeadingLevel(text) ==
    LET h == SkipHashes(text, 1) - 1
    IN  IF /\ h >= 1 /\ h <= 6
           /\ Len(text) >= h + 2
           /\ IsSpace(text[h + 1])
           /\ \E k \in (h + 2)..Len(text) :
                 /\ text[k] # "\n"
                 /\ \A j \in (h + 1)..(k - 1) : IsSpace(text[j])
        THEN h ELSE 0

\* one line of the file, already without its newline
LineBlock(text, is_markdown) ==
    IF IsBlank(text) THEN BlankBlock
    ELSE LET h == IF is_markdown THEN MdHeadingLevel(text) ELSE 0
         IN  TextBlock(text, 0, h, IF is_markdown THEN "markdown" ELSE "plain",
                       IF h > 0 THEN 100 ELSE 0)

\* extract_text_file: the file's lines, or nothing when it cannot be read
extract_text_file(file) ==
    IF ~file.readable THEN <<>>
    ELSE [i \in 1..Len(file.lines) |->
            LineBlock(file.lines[i], Ext(file.name) \in {DotMd, DotMarkdown})]

(***************************************************************************)
(* PDF extraction.  What a backend does with the file is an input: the     *)
(* library or tool is missing, the call raises (or times out), or it       *)
(* yields page texts (PyMuPDF, pdfplumber) or an exit code and stdout      *)
(* (pdftotext).                                                            *)
(***************************************************************************)
RECURSIVE PageBlocksFrom(_, _)
\* a block for each page with text, numbered by its position
PageBlocksFrom(pages, i) ==
    IF i > Len(pages) THEN <<>>
    ELSE (IF ~IsBlank(pages[i])
          THEN <<TextBlock(pages[i], i, 0, "", 0)>> ELSE <<>>)
         \o PageBlocksFrom(pages, i + 1)

PageBlocks(pages) == PageBlocksFrom(pages, 1)

RECURSIVE SplitFormFeed(_)
\* stdout.split("\f")
SplitFormFeed(t) ==
    IF \E i \in 1..Len(t) : t[i] = "\f"
    THEN LET i == CHOOSE x \in 1..Len(t) :
                      t[x] = "\f" /\ \A y \in 1..(x - 1) : t[y] # "\f"
         IN  <<SubSeq(t, 1, i - 1)>> \o SplitFormFeed(SubSeq(t, i + 1, Len(t)))
    ELSE <<t>>

\* what can go wrong inside an extractor's try block: the library or the
\* tool fails ("error"), or subprocess.run exceeds its 120 s ("timeout")
PdfFailures == {"error", "timeout"}

\* "except Exception": every failure is caught, TimeoutExpired included
Caught(kind) == kind \in PdfFailures

\* an exception that leaves the extractor
Propagates(o) == o.kind \in PdfFailures /\ ~Caught(o.kind)

\* o is what the backend does with the file: "missing" (the module or the
\* tool is not installed), a failure, or "ok" with what it read
extract_pdf_pymupdf(o) ==
    IF o.kind = "missing" THEN <<>>
    ELSE IF o.kind \in PdfFailures THEN <<>>
    ELSE PageBlocks(o.pages)

extract_pdf_pdfplumber(o) ==
    IF o.kind = "missing" THEN <<>>
    ELSE IF o.kind \in PdfFailures THEN <<>>
    ELSE PageBlocks(o.pages)

extract_pdf_pdftotext(o) ==
    IF o.kind = "missing" THEN <<>>
    ELSE IF o.kind \in PdfFailures THEN <<>>
    ELSE IF o.returncode = 0 /\ ~IsBlank(o.stdout)
    THEN PageBlocks(SplitFormFeed(o.stdout))
    ELSE <<>>

\* the extractors in the order extract_pdf tries them
PdfBackends == <<"pymupdf", "pdfplumber", "pdftotext">>

RunBackend(i, o) ==
    IF PdfBackends[i] = "pymupdf" THEN extract_pdf_pymupdf(o)
    ELSE IF PdfBackends[i] = "pdfplumber" THEN extract_pdf_pdfplumber(o)
    ELSE extract_pdf_pdftotext(o)

RECURSIVE TotalChars(_)
\* sum(len(b.text) for b in blocks)
TotalChars(blocks) ==
    IF blocks = <<>> THEN 0 ELSE Len(Head(blocks).text) + TotalChars(Tail(blocks))

\* a backend's result is returned when it holds more characters than this
MinUsableChars == 100

UsableAtLeast(blocks) == TotalChars(blocks) >= MinUsableChars

Usable(blocks) == TotalChars(blocks) > MinUsableChars

RECURSIVE PdfCascade(_, _)
\* extract_pdf from backend i on
PdfCascade(outcomes, i) ==
    LET blocks == RunBackend(i, outcomes[i])
    IN  IF Usable(blocks) \/ i = Len(PdfBackends) THEN blocks
        ELSE PdfCascade(outcomes, i + 1)

extract_pdf(file) == PdfCascade(file.backends, 1)

(***************************************************************************)
(* DOCX extraction                                                         *)
(***************************************************************************)
HeadingWord == <<"H", "e", "a", "d", "i", "n", "g">>
TitleStyle == <<"T", "i", "t", "l", "e">>
SubtitleStyle == <<"S", "u", "b", "t", "i", "t", "l", "e">>

RECURSIVE DigitsValue(_)
\* int(t) for a string of digits
DigitsValue(t) ==
    IF t = <<>> THEN 0
    ELSE 10 * DigitsValue(SubSeq(t, 1, Len(t) - 1))
            + (CHOOSE d \in 0..9 : DigitChars[d + 1] = t[Len(t)])

\* int(style_name.replace("Heading", "").strip()), 1 on ValueError, for style
\* names that hold "Heading" only as their prefix
HeadingStyleLevel(style) ==
    LET rest == Strip(SubSeq(style, Len(HeadingWord) + 1, Len(style)))
    IN  IF rest # <<>> /\ \A k \in 1..Len(rest) : IsDigit(rest[k])
        THEN DigitsValue(rest) ELSE 1

ParagraphBlock(para) ==
    LET text == Strip(para.text)
    IN  IF text = <<>> THEN BlankBlock
        ELSE IF StartsWith(para.style, HeadingWord)
        THEN TextBlock(text, 0, HeadingStyleLevel(para.style), para.style, 100)
        ELSE IF para.style = TitleStyle THEN TextBlock(text, 0, 1, para.style, 100)
        ELSE IF para.style = SubtitleStyle THEN TextBlock(text, 0, 2, para.style, 100)
        ELSE TextBlock(text, 0, 0, para.style, 0)

CellSeparator == <<" ", "|", " ">>

RECURSIVE TableRows(_)
TableRows(rows) ==
    IF rows = <<>> THEN <<>>
    ELSE Join([c \in 1..Len(Head(rows)) |-> Strip(Head(rows)[c])], CellSeparator)
            \o <<"\n">> \o TableRows(Tail(rows))

TableBlock(rows) ==
    TextBlock(<<"[", "T", "A", "B", "L", "E", "]", "\n">> \o TableRows(rows)
                \o <<"[", "/", "T", "A", "B", "L", "E", "]", "\n">>,
              0, 0, "table", 0)

\* extract_docx: nothing when python-docx is missing or the document cannot
\* be opened
extract_docx(file) ==
    IF ~file.readable THEN <<>>
    ELSE [i \in 1..Len(file.paras) |-> ParagraphBlock(file.paras[i])]
            \o [i \in 1..Len(file.tables) |-> TableBlock(file.tables[i])]

(***************************************************************************)
(* Unified extraction dispatcher                                           *)
(***************************************************************************)
extract_file(file) ==
    LET ext == Ext(file.name)
    IN  IF ext = DotPdf THEN extract_pdf(file)
        ELSE IF ext = DotDocx THEN extract_docx(file)
        ELSE IF ext \in {DotTxt, DotMd, DotMarkdown} THEN extract_text_file(file)
        ELSE <<>>

(***************************************************************************)
(* detect_boundaries                                                       *)
(***************************************************************************)
SectionBoundary(index, heading, level, confidence, page) ==
    [index |-> index, heading |-> heading, level |-> level,
     confidence |-> confidence, page |-> page]

\* re.sub(r'^[A-Z]?-?\d+\s+', '', t): a leading page-number token
StripPageNumber(t) ==
    LET a == IF t # <<>> /\ IsUpper(t[1]) THEN 2 ELSE 1
        b == IF a <= Len(t) /\ t[a] = "-" THEN a + 1 ELSE a
        d == SkipDigits(t, b)
    IN  IF d > b /\ d <= Len(t) /\ IsSpace(t[d])
        THEN SubSeq(t, SkipSpace(t, d), Len(t))
        ELSE t

\* re.sub(r'^#+\s*', '', t)
StripHashMarks(t) ==
    LET h == SkipHashes(t, 1)
    IN  IF h > 1 THEN SubSeq(t, SkipSpace(t, h), Len(t)) ELSE t

UntitledSection ==
    <<"U", "n", "t", "i", "t", "l", "e", "d", " ",
      "S", "e", "c", "t", "i", "o", "n">>

clean_heading(text) ==
    LET t1 == Strip(CollapseFrom(text, 1))
        t2 == Strip(StripPageNumber(t1))
        t3 == Strip(StripHashMarks(t2))
    IN  IF t3 = <<>> THEN UntitledSection ELSE t3

RECURSIVE NumberGroupsEnd(_, _)
\* (\d+\.)* from position p: the position after the last group
NumberGroupsEnd(t, p) ==
    LET d == SkipDigits(t, p)
    IN  IF d > p /\ d <= Len(t) /\ t[d] = "." THEN NumberGroupsEnd(t, d + 1)
        ELSE p

\* ^\s*(\d+\.)+\s+\S
MatchNumbered(t) ==
    LET a == SkipSpace(t, 1)
        e == NumberGroupsEnd(t, a)
    IN  e > a /\ SpaceThenText(t, e)

\* ^\s*[IVXLCDM]+\.\s+\S
MatchRoman(t) ==
    LET a == SkipSpace(t, 1)
        e == SkipRoman(t, a)
    IN  e > a /\ e <= Len(t) /\ t[e] = "." /\ SpaceThenText(t, e + 1)

\* ^\s*[A-Z]\.\s+\S
MatchLetter(t) ==
    LET a == SkipSpace(t, 1)
    IN  /\ a + 1 <= Len(t) /\ IsUpper(t[a]) /\ t[a + 1] = "."
        /\ SpaceThenText(t, a + 2)

SectionWords ==
    { <<"S", "E", "C", "T", "I", "O", "N">>, <<"A", "R", "T", "I", "C", "L", "E">>,
      <<"C", "H", "A", "P", "T", "E", "R">>, <<"P", "A", "R", "T">> }

\* ^\s*(Section|Article|Chapter|Part)\s+[\dIVXLCDM]+ with re.IGNORECASE; the
\* upper-case pattern that follows it in SECTION_PATTERNS matches a subset
MatchSectionWord(t) ==
    LET a == SkipSpace(t, 1)
        u == Upper(t)
    IN  \E w \in SectionWords :
            LET e == a + Len(w)
            IN  /\ e <= Len(t)
                /\ SubSeq(u, a, e - 1) = w
                /\ IsSpace(t[e])
                /\ LET n == SkipSpace(t, e)
                   IN  n <= Len(t) /\ (IsDigit(u[n]) \/ IsRoman(u[n]))

\* the confidence of the first pattern of SECTION_PATTERNS that matches, 0 if
\* none does (the loop breaks at the first match)
PatternConfidence(t) ==
    IF MatchNumbered(t) THEN 90
    ELSE IF MatchRoman(t) THEN 85
    ELSE IF MatchLetter(t) THEN 80
    ELSE IF MatchSectionWord(t) THEN 95
    ELSE 0

\* re.match(r"^\s*([\d.]+)", text): the level from the leading run of digits
\* and dots, 1 when there is none
PatternLevel(t) ==
    LET a == SkipSpace(t, 1)
        e == CHOOSE q \in a..(Len(t) + 1) :
                 /\ \A k \in a..(q - 1) : IsDigit(t[k]) \/ t[k] = "."
                 /\ (q = Len(t) + 1 \/ ~(IsDigit(t[q]) \/ t[q] = "."))
        \* group(1).rstrip(".")
        r == CHOOSE q \in (a - 1)..(e - 1) :
                 /\ \A k \in (q + 1)..(e - 1) : t[k] = "."
                 /\ (q = a - 1 \/ t[q] # ".")
        depth == Cardinality({k \in a..r : t[k] = "."}) + 1
    IN  IF e = a THEN 1 ELSE IF depth < 4 THEN depth ELSE 4

TableMarker == <<"[", "T", "A", "B", "L", "E">>

\* the ALL-CAPS heuristic: short, at least two words, equal to its upper case
AllCapsHeader(t) ==
    /\ Len(t) < 120
    /\ \E k \in 1..Len(t) : IsSpace(t[k])
    /\ t = Upper(t)
    /\ ~StartsWith(t, TableMarker)

\* the loop state of detect_boundaries
\* the loop state before the first block; `seen` is the number of blocks
\* the loop has been through
DetectInit == [boundaries |-> <<>>, blank_count |-> 0, seen |-> 0]

\* a gap of two blank blocks counted as long
LongGapAtTwo(blank_count) == blank_count >= 2

\* blank_count >= 3: a long blank gap
LongGap(blank_count) == blank_count >= 3

\* one iteration of detect_boundaries, for block i (0-based index i - 1)
DetectStep(d, blocks, i) ==
    LET block == blocks[i]
        text == Strip(block.text)
        pc == PatternConfidence(text)
        c1 == IF pc = 0 /\ AllCapsHeader(text) THEN 70 ELSE pc
        lv == IF pc > 0 THEN PatternLevel(text) ELSE 1
        best == IF LongGap(d.blank_count) /\ c1 = 0 THEN 30 ELSE c1
    IN  IF block.confidence >= 90 /\ block.heading_level > 0
        THEN [boundaries |-> Append(d.boundaries,
                    SectionBoundary(i - 1, clean_heading(text), block.heading_level,
                                    block.confidence, block.page)),
              blank_count |-> 0, seen |-> i]
        ELSE IF text = <<>>
        THEN [d EXCEPT !.blank_count = @ + 1, !.seen = i]
        ELSE [boundaries |->
                  IF best > 0
                  THEN Append(d.boundaries,
                        SectionBoundary(i - 1, clean_heading(Prefix(text, 120)),
                                        lv, best, block.page))
                  ELSE d.boundaries,
              blank_count |-> 0, seen |-> i]

RECURSIVE DetectLoop(_, _)
\* for i, block in enumerate(blocks), from the state d
DetectLoop(d, blocks) ==
    IF d.seen >= Len(blocks) THEN d
    ELSE DetectLoop(DetectStep(d, blocks, d.seen + 1), blocks)

detect_boundaries(blocks) == DetectLoop(DetectInit, blocks).boundaries

(***************************************************************************)
(* Chunking strategies                                                     *)
(***************************************************************************)
blocks_to_text(blocks) ==
    Join([i \in 1..Len(blocks) |-> blocks[i].text], <<"\n">>)

Min(S) == CHOOSE x \in S : \A y \in S : x <= y
Max(S) == CHOOSE x \in S : \A y \in S : x >= y

\* pages = [b.page for b in blocks if b.page > 0]
Pages(blocks) == {blocks[i].page : i \in {j \in 1..Len(blocks) : blocks[j].page > 0}}

Section(heading, level, blocks) ==
    [heading |-> heading, level |-> level,
     text |-> blocks_to_text(blocks),
     tokens |-> count_tokens(blocks_to_text(blocks)),
     start_page |-> IF Pages(blocks) # {} THEN Min(Pages(blocks)) ELSE 0,
     end_page |-> IF Pages(blocks) # {} THEN Max(Pages(blocks)) ELSE 0]

\* sorted(boundaries, key=lambda b: b.index), for boundaries of distinct index
SortByIndex(bs) ==
    [k \in 1..Len(bs) |->
        bs[CHOOSE i \in 1..Len(bs) :
              Cardinality({j \in 1..Len(bs) : bs[j].index < bs[i].index}) = k - 1]]

PreambleHeading == <<"P", "r", "e", "a", "m", "b", "l", "e">>

\* the sections of chunk_by_structure: one per boundary, after the preamble
\* when the blocks before the first boundary hold text
BuildSections(blocks, boundaries) ==
    LET bs == SortByIndex(boundaries)
        stop(i) == IF i + 1 <= Len(bs) THEN bs[i + 1].index ELSE Len(blocks)
        body == [i \in 1..Len(bs) |->
                    Section(bs[i].heading, bs[i].level,
                            SubSeq(blocks, bs[i].index + 1, stop(i)))]
        pre == SubSeq(blocks, 1, bs[1].index)
    IN  IF bs[1].index > 0 /\ ~IsBlank(blocks_to_text(pre))
        THEN <<Section(PreambleHeading, 0, pre)>> \o body
        ELSE body

\* a merge buffer of fewer tokens than this is "tiny"
TinyTokens == 100

\* part numbers counted from 0
PartSuffixZeroBased(j) == <<" ", "(", "p", "a", "r", "t", " ">> \o IntToStr(j - 1) \o <<")">>

\* f" (part {j+1})" for the piece at 1-based position j
PartSuffix(j) == <<" ", "(", "p", "a", "r", "t", " ">> \o IntToStr(j) \o <<")">>

BlankLine == <<"\n", "\n">>

\* headings joined without the spaces around the slash
HeadingJoinTight == <<"/">>

HeadingJoin == <<" ", "/", " ">>

\* the pieces of an oversized section, as entries of `merged`
SplitPieces(section, full_text, max_tokens, overlap) ==
    LET sub_chunks == split_text_by_tokens(full_text, max_tokens, overlap)
    IN  [j \in 1..Len(sub_chunks) |->
            [heading |-> section.heading \o
                         (IF Len(sub_chunks) > 1 THEN PartSuffix(j) ELSE <<>>),
             level |-> section.level,
             text |-> sub_chunks[j],
             tokens |-> count_tokens(sub_chunks[j]),
             start_page |-> section.start_page,
             end_page |-> section.end_page]]

\* the buffer after it absorbs a section
Absorb(buffer, section) ==
    LET tokens == buffer.tokens + section.tokens
    IN  [buffer EXCEPT
            !.text = @ \o BlankLine \o section.text,
            !.tokens = tokens,
            !.heading =
                IF buffer.heading # PreambleHeading \/ section.heading # PreambleHeading
                THEN IF tokens < TinyTokens THEN section.heading
                     ELSE buffer.heading \o HeadingJoin \o section.heading
                ELSE @,
            !.end_page = IF @ >= section.end_page THEN @ ELSE section.end_page]

\* buffer and (tiny or buffer + section < max_tokens * 0.8)
Absorbs(buffer, section, max_tokens) ==
    /\ buffer # <<>>
    /\ \/ buffer[1].tokens < TinyTokens
       \/ 10 * (buffer[1].tokens + section.tokens) < 8 * max_tokens

\* the merge pass before the first section: `buffer` is empty or holds the
\* one pending section.  `origin` and `pending` are history: for each entry
\* of `merged`, the sections first..last it was built from and its piece
\* number (0 when it is not a split piece); for the buffer, its first
\* section.  `seen` is the number of sections the loop has been through
MergeInit ==
    [merged |-> <<>>, buffer |-> <<>>, origin |-> <<>>, pending |-> 0, seen |-> 0]

Origin(first, last, piece) == [first |-> first, last |-> last, piece |-> piece]

\* a pending buffer of exactly TinyTokens tokens counted as tiny
TinyBufferInclusive(buffer) == buffer # <<>> /\ buffer[1].tokens <= TinyTokens

\* buffer and buffer["tokens"] < 100, before an oversized section
TinyBuffer(buffer) == buffer # <<>> /\ buffer[1].tokens < TinyTokens

\* one iteration of the merge pass, for section i
MergeStep(m, section, i, max_tokens, overlap) ==
    IF section.tokens > max_tokens
    THEN LET tiny == TinyBuffer(m.buffer)
             prepend_text == IF tiny THEN m.buffer[1].text \o BlankLine ELSE <<>>
             flushed == IF tiny THEN m.merged ELSE m.merged \o m.buffer
             pieces == SplitPieces(section, prepend_text \o section.text,
                                   max_tokens, overlap)
         IN  [merged |-> flushed \o pieces,
              buffer |-> <<>>,
              origin |->
                  (IF tiny \/ m.buffer = <<>> THEN m.origin
                   ELSE Append(m.origin, Origin(m.pending, i - 1, 0)))
                  \o [j \in 1..Len(pieces) |->
                        Origin(IF tiny THEN m.pending ELSE i, i, j)],
              pending |-> 0, seen |-> i]
    ELSE IF Absorbs(m.buffer, section, max_tokens)
    THEN [m EXCEPT !.buffer = <<Absorb(m.buffer[1], section)>>, !.seen = i]
    ELSE [merged |-> m.merged \o m.buffer, buffer |-> <<section>>,
          origin |-> IF m.buffer = <<>> THEN m.origin
                     ELSE Append(m.origin, Origin(m.pending, i - 1, 0)),
          pending |-> i, seen |-> i]

\* after the loop: flush the buffer; n is the number of sections
MergeFlush(m, n) ==
    [merged |-> m.merged \o m.buffer, buffer |-> <<>>,
     origin |-> IF m.buffer = <<>> THEN m.origin
                ELSE Append(m.origin, Origin(m.pending, n, 0)),
     pending |-> 0, seen |-> n]

RECURSIVE MergeLoop(_, _, _, _)
\* for section in sections, from the state m
MergeLoop(m, sections, max_tokens, overlap) ==
    IF m.seen >= Len(sections) THEN m
    ELSE MergeLoop(MergeStep(m, sections[m.seen + 1], m.seen + 1, max_tokens, overlap),
                   sections, max_tokens, overlap)

\* the id of the entry at 0-based position i
ChunkIdZeroBased(i) == i

ChunkId(i) == i + 1

\* the final chunk list of chunk_by_structure
EmitChunks(merged) ==
    [k \in 1..Len(merged) |->
        [id |-> ChunkId(k - 1),
         heading |-> merged[k].heading,
         level |-> merged[k].level,
         text |-> merged[k].text,
         tokens |-> merged[k].tokens,
         start_page |-> merged[k].start_page,
         end_page |-> merged[k].end_page]]

chunk_by_structure(blocks, boundaries, max_tokens, overlap) ==
    IF boundaries = <<>> THEN <<>>
    ELSE LET sections == BuildSections(blocks, boundaries)
         IN  EmitChunks(MergeFlush(MergeLoop(MergeInit, sections,
                                             max_tokens, overlap),
                                   Len(sections)).merged)

SectionWord == <<"S", "e", "c", "t", "i", "o", "n", " ">>

RECURSIVE LenSum(_, _)
\* the characters of the first n texts
LenSum(texts, n) == IF n = 0 THEN 0 ELSE Len(texts[n]) + LenSum(texts, n - 1)

chunk_by_tokens(blocks, max_tokens, overlap) ==
    LET full_text == blocks_to_text(blocks)
        sub_texts == split_text_by_tokens(full_text, max_tokens, overlap)
        total_pages == IF Pages(blocks) # {} THEN Max(Pages(blocks)) ELSE 1
        total_chars == IF Len(full_text) > 1 THEN Len(full_text) ELSE 1
        per == total_pages \div (IF Len(sub_texts) > 1 THEN Len(sub_texts) ELSE 1)
        pages_per_chunk == IF per > 1 THEN per ELSE 1
        est_page(k) ==
            LET e == (LenSum(sub_texts, k - 1) * total_pages) \div total_chars + 1
            IN  IF e > 1 THEN e ELSE 1
    IN  [k \in 1..Len(sub_texts) |->
            [id |-> ChunkId(k - 1),
             heading |-> SectionWord \o IntToStr(k),
             level |-> 1,
             text |-> sub_texts[k],
             tokens |-> count_tokens(sub_texts[k]),
             start_page |-> est_page(k),
             end_page |-> IF est_page(k) + pages_per_chunk < total_pages
                          THEN est_page(k) + pages_per_chunk ELSE total_pages]]

(***************************************************************************)
(* extract_and_chunk                                                       *)
(***************************************************************************)
SUPPORTED_EXTENSIONS == {DotPdf, DotDocx, DotTxt, DotMd, DotMarkdown}

\* files with fewer extracted characters than this are skipped
MinChars == 50

\* a boundary of at least this confidence (in hundredths) is high-confidence
HighConfidence == 70

\* this many high-confidence boundaries select structure-aware chunking
MinBoundaries == 3

HighConfLoose(boundaries) == SelectSeq(boundaries, LAMBDA b : b.confidence >= 30)

\* high_conf = [b for b in boundaries if b.confidence >= 0.7]
HighConf(boundaries) == SelectSeq(boundaries, LAMBDA b : b.confidence >= HighConfidence)

StructureAwareAtTwo(high_conf) == Len(high_conf) >= MinBoundaries - 1

\* len(high_conf) >= 3
StructureAware(high_conf) == Len(high_conf) >= MinBoundaries

TooLittleTextInclusive(blocks) == TotalChars(blocks) <= MinChars

\* total_chars < 50
TooLittleText(blocks) == TotalChars(blocks) < MinChars

None == [ok |-> FALSE]

\* ext.lstrip(".")
FileType(ext) ==
    LET n == CHOOSE q \in 1..(Len(ext) + 1) :
                 /\ \A k \in 1..(q - 1) : ext[k] = "."
                 /\ (q = Len(ext) + 1 \/ ext[q] # ".")
    IN  SubSeq(ext, n, Len(ext))

\* document_structure of the result
DocStructure(boundaries) ==
    LET hc == HighConf(SortByIndex(boundaries))
    IN  [k \in 1..Len(hc) |->
            [heading |-> clean_heading(hc[k].heading), level |-> hc[k].level,
             page |-> hc[k].page]]

ResultOf(file, blocks, boundaries, chunking_mode, chunks) ==
    [ok |-> TRUE,
     filename |-> file.name,
     file_type |-> FileType(Ext(file.name)),
     total_pages |-> IF Pages(blocks) # {} THEN Max(Pages(blocks)) ELSE 0,
     total_tokens |-> count_tokens(blocks_to_text(blocks)),
     total_chars |-> TotalChars(blocks),
     chunking_mode |-> chunking_mode,
     document_structure |-> DocStructure(boundaries),
     chunks |-> chunks]

\* the whole function: None, or the result
extract_and_chunk(file, max_tokens, overlap) ==
    IF Ext(file.name) \notin SUPPORTED_EXTENSIONS THEN None
    ELSE LET blocks == extract_file(file)
             boundaries == detect_boundaries(blocks)
             high_conf == HighConf(boundaries)
         IN  IF TooLittleText(blocks) THEN None
             ELSE IF StructureAware(high_conf)
             THEN ResultOf(file, blocks, boundaries, "structure_aware",
                           chunk_by_structure(blocks, high_conf, max_tokens, overlap))
             ELSE ResultOf(file, blocks, boundaries, "token_based",
                           chunk_by_tokens(blocks, max_tokens, overlap))

(***************************************************************************)
(* Input files of the model.                                               *)
(***************************************************************************)
\* most lines of a text file
MaxLines == 3

NoBackends == [i \in 1..3 |-> [kind |-> "missing"]]

\* a file: its name, whether its extractor can read it, and what each
\* extractor finds in it
File(name, readable, lines, backends, paras, tables) ==
    [name |-> name, readable |-> readable, lines |-> lines,
     backends |-> backends, paras |-> paras, tables |-> tables]

TextFile(name, lines) == File(name, TRUE, lines, NoBackends, <<>>, <<>>)

NumberedLine == <<"1", ".", " ", "a", "a", ".">>

\* an upper-case line of three sentences
CapsLine ==
    <<"A", "A", " ">> \o Rep("A", 7) \o <<".", " ">> \o Rep("A", 7)
        \o <<".", " ">> \o Rep("A", 7)

\* a body line of two sentences
BodyLine == <<"a", "a", "a", "a", " ">> \o Rep("a", 6) \o <<"!", " ", "a", "a", "a", ".">>

MarkdownHeadingLine == <<"#", " ", "A", "a">>

\* the lines a text or a Markdown file is made of; <<>> is an empty line
LineCatalog(is_markdown) ==
    {CapsLine, BodyLine, <<>>}
        \cup (IF is_markdown THEN {MarkdownHeadingLine} ELSE {NumberedLine})

TextFiles ==
    {TextFile(<<"n", "o", "t", "e", "s", ".", "t", "x", "t">>, lines) :
        lines \in SeqsUpTo(LineCatalog(FALSE), MaxLines) \cup {<<>>}}
    \cup {TextFile(<<"n", "o", "t", "e", "s", ".", "m", "d">>, lines) :
        lines \in SeqsUpTo(LineCatalog(TRUE), MaxLines)}

\* most lines of a long text file
MaxLongLines == 4

\* a numbered heading line of 4 * TinyTokens characters
LongHeadingLine == <<"2", ".", " ">> \o Rep("b", 4 * TinyTokens - 4) \o <<".">>

\* a body line of 4 * TinyTokens characters, in four sentences
LongBodyLine ==
    Join([k \in 1..4 |-> Rep("c", TinyTokens - 2) \o <<".">>], <<" ">>)

LongFiles ==
    {TextFile(<<"r", "e", "p", "o", "r", "t", ".", "t", "x", "t">>, lines) :
        lines \in SeqsUpTo({NumberedLine, LongHeadingLine, LongBodyLine}, MaxLongLines)}

\* text files with a gap of three empty lines before a body line, between
\* up to two heading lines on either side
GapFiles ==
    LET sides == SeqsUpTo({NumberedLine, CapsLine}, 2) \cup {<<>>}
    IN  {TextFile(<<"g", "a", "p", "s", ".", "t", "x", "t">>, a \o <<<<>>, <<>>, <<>>, BodyLine>> \o b) :
            a \in sides, b \in sides}

\* a Markdown heading line whose title is the preamble's heading
PreambleHeadingLine == <<"#", " ">> \o PreambleHeading

\* Markdown files that open with a body line, long or short, with a section
\* titled "Preamble" among the headings after it
PreambleFiles ==
    {TextFile(<<"i", "n", "t", "r", "o", ".", "m", "d">>, <<first>> \o lines) :
        first \in {LongBodyLine, Rep("a", MinChars)},
        lines \in {<<a, b, c>> : a \in {PreambleHeadingLine, MarkdownHeadingLine},
                                  b \in {PreambleHeadingLine, MarkdownHeadingLine},
                                  c \in {MarkdownHeadingLine}}}

\* text files that open with an empty line before three heading lines
LeadingBlankFiles ==
    {TextFile(<<"l", "e", "a", "d", ".", "t", "x", "t">>, <<<<>>>> \o lines) :
        lines \in {<<CapsLine, CapsLine, NumberedLine>>,
                   <<CapsLine, NumberedLine, CapsLine>>}}

\* a budget under which a section of TinyTokens tokens is not oversized
LongBudget == TinyTokens + (TinyTokens \div 2)

Page(n) == Rep("a", n - 1) \o <<".">>

\* what a page-based backend (PyMuPDF, pdfplumber) may do
PageOutcomes ==
    { [kind |-> "missing"], [kind |-> "error"],
      [kind |-> "ok", pages |-> <<>>],
      [kind |-> "ok", pages |-> <<Page(60), Page(MinUsableChars - 60)>>],
      [kind |-> "ok", pages |-> <<Page(60), <<" ", "\n">>, Page(MinUsableChars - 59)>>],
      [kind |-> "ok", pages |-> <<Page(MinChars - 1)>>],
      [kind |-> "ok", pages |-> <<Page(MinChars)>>] }

\* what pdftotext may do
ToolOutcomes ==
    { [kind |-> "missing"], [kind |-> "error"], [kind |-> "timeout"],
      [kind |-> "ok", returncode |-> 1, stdout |-> Page(MinUsableChars + 1)],
      [kind |-> "ok", returncode |-> 0, stdout |-> <<"\n", "\f">>],
      [kind |-> "ok", returncode |-> 0,
       stdout |-> Page(60) \o <<"\f">> \o Page(MinUsableChars - 60) \o <<"\f">>],
      [kind |-> "ok", returncode |-> 0,
       stdout |-> Page(MinChars) \o <<"\f", "\f">> \o Page(MinUsableChars - 49)] }

PdfOutcomes == {<<a, b, c>> : a \in PageOutcomes, b \in PageOutcomes, c \in ToolOutcomes}

\* PDF files for the chunkers: the first backend errs or succeeds
PdfFiles ==
    {File(<<"s", "c", "a", "n", ".", "p", "d", "f">>, TRUE, <<>>, o, <<>>, <<>>) :
        o \in {q \in PdfOutcomes : q[1].kind # "missing" /\ q[2].kind = "missing"}}

NormalStyle == <<"N", "o", "r", "m", "a", "l">>

\* a heading, a deep heading, a title, a body paragraph of two sentences and
\* an empty paragraph
ParaCatalog ==
    { [text |-> <<"A", "a", " ", "a", "a">>, style |-> HeadingWord \o <<" ", "1">>],
      [text |-> <<"B", "b">>, style |-> HeadingWord \o <<" ", "5">>],
      [text |-> <<"T", "t">>, style |-> TitleStyle],
      [text |-> Rep("a", 19) \o <<".", " ">> \o Rep("a", 19) \o <<".">>,
       style |-> NormalStyle],
      [text |-> <<" ">>, style |-> NormalStyle] }

DocxTable == << <<<<"a", " ">>, <<"b">>>>, <<<<"c">>, <<>>>> >>

DocxFiles ==
    {File(<<"m", "e", "m", "o", ".", "d", "o", "c", "x">>, TRUE, <<>>, NoBackends, paras, <<>>) :
        paras \in SeqsUpTo(ParaCatalog, 3)}
    \cup {File(<<"m", "e", "m", "o", ".", "d", "o", "c", "x">>, TRUE, <<>>, NoBackends, <<p, p>>, <<DocxTable>>) :
        p \in ParaCatalog}

\* files the extractors cannot read, and files of other types
OtherFiles ==
    { File(<<"g", "o", "n", "e", ".", "t", "x", "t">>, FALSE, <<>>, NoBackends, <<>>, <<>>),
      File(<<"g", "o", "n", "e", ".", "d", "o", "c", "x">>, FALSE, <<>>, NoBackends, <<>>, <<>>),
      File(<<"d", "a", "t", "a", ".", "c", "s", "v">>, TRUE, <<Rep("a", MinChars)>>, NoBackends, <<>>, <<>>),
      File(<<"R", "E", "A", "D", "M", "E">>, TRUE, <<Rep("a", MinChars)>>, NoBackends, <<>>, <<>>) }

\* one-line text files on either side of the minimum-text check
EdgeFiles ==
    {TextFile(<<"e", "d", "g", "e", ".", "t", "x", "t">>, <<Rep("a", n)>>) :
        n \in {MinChars - 1, MinChars}}

InputFiles ==
    TextFiles \cup LongFiles \cup PreambleFiles \cup LeadingBlankFiles
        \cup GapFiles \cup EdgeFiles
        \cup PdfFiles \cup DocxFiles \cup OtherFiles

(***************************************************************************)
(* One file through main's single-file mode, or through a direct call of   *)
(* extract_and_chunk, step by step.                                        *)
(***************************************************************************)
InitFile ==
    /\ \E file \in InputFiles, mode \in {"single", "call"},
          max_tokens \in 1..MaxBudget \cup {LongBudget}, overlap \in {0, MaxOverlap} :
         /\ mode = "call" => file \in OtherFiles
         /\ max_tokens = LongBudget <=> file \in LongFiles \cup PreambleFiles
         /\ fl = [pc |-> IF mode = "single" THEN "main" ELSE "eac",
                  mode |-> mode, file |-> file,
                  max_tokens |-> max_tokens, overlap |-> overlap,
                  blocks |-> <<>>, boundaries |-> <<>>, high_conf |-> <<>>,
                  chunking_mode |-> "", sections |-> <<>>, i |-> 0,
                  m |-> MergeInit, chunks |-> <<>>, result |-> None,
                  detected |-> FALSE, chunked |-> FALSE,
                  written |-> FALSE, exit |-> -1]
    /\ sp = Idle /\ pdf = Idle /\ dir = Idle

\* main, single-file mode: the extension check before extract_and_chunk
MainSingleFile ==
    /\ fl.pc = "main"
    /\ fl' = IF Ext(fl.file.name) \notin SUPPORTED_EXTENSIONS
             THEN [fl EXCEPT !.pc = "exited", !.exit = 1]
             ELSE [fl EXCEPT !.pc = "eac"]
    /\ UNCHANGED <<sp, pdf, dir>>

\* extract_and_chunk: the extension check
EacCheckExtension ==
    /\ fl.pc = "eac"
    /\ fl' = IF Ext(fl.file.name) \notin SUPPORTED_EXTENSIONS
             THEN [fl EXCEPT !.pc = "returned", !.result = None]
             ELSE [fl EXCEPT !.pc = "extract"]
    /\ UNCHANGED <<sp, pdf, dir>>

\* extract_and_chunk: extraction and the minimum-text check
EacExtract ==
    /\ fl.pc = "extract"
    /\ LET blocks == extract_file(fl.file)
       IN  fl' = IF TooLittleText(blocks)
                 THEN [fl EXCEPT !.pc = "returned", !.blocks = blocks, !.result = None]
                 ELSE [fl EXCEPT !.pc = "detect", !.blocks = blocks]
    /\ UNCHANGED <<sp, pdf, dir>>

\* extract_and_chunk: boundary detection and the choice of the chunking mode
EacDetect ==
    /\ fl.pc = "detect"
    /\ LET boundaries == detect_boundaries(fl.blocks)
           high_conf == HighConf(boundaries)
       IN  fl' = IF StructureAware(high_conf)
                 THEN [fl EXCEPT !.pc = "merge", !.detected = TRUE,
                                 !.boundaries = boundaries, !.high_conf = high_conf,
                                 !.chunking_mode = "structure_aware",
                                 !.sections = BuildSections(fl.blocks, high_conf),
                                 !.i = 1, !.chunked = TRUE]
                 ELSE [fl EXCEPT !.pc = "tokens", !.detected = TRUE,
                                 !.boundaries = boundaries, !.high_conf = high_conf,
                                 !.chunking_mode = "token_based"]
    /\ UNCHANGED <<sp, pdf, dir>>

\* chunk_by_structure: one iteration of the merge pass
StructMerge ==
    /\ fl.pc = "merge"
    /\ fl.i <= Len(fl.sections)
    /\ fl' = [fl EXCEPT !.m = MergeStep(fl.m, fl.sections[fl.i], fl.i,
                                        fl.max_tokens, fl.overlap),
                        !.i = @ + 1]
    /\ UNCHANGED <<sp, pdf, dir>>

\* chunk_by_structure: the last flush and the numbering of the chunks
StructEmit ==
    /\ fl.pc = "merge"
    /\ fl.i > Len(fl.sections)
    /\ LET m == MergeFlush(fl.m, Len(fl.sections))
       IN  fl' = [fl EXCEPT !.pc = "chunked", !.m = m, !.chunks = EmitChunks(m.merged)]
    /\ UNCHANGED <<sp, pdf, dir>>

\* chunk_by_tokens over the whole block sequence
TokenChunks ==
    /\ fl.pc = "tokens"
    /\ fl' = [fl EXCEPT !.pc = "chunked", !.chunked = TRUE,
                        !.chunks = chunk_by_tokens(fl.blocks, fl.max_tokens, fl.overlap)]
    /\ UNCHANGED <<sp, pdf, dir>>

\* extract_and_chunk returns the result
EacReturn ==
    /\ fl.pc = "chunked"
    /\ fl' = [fl EXCEPT !.pc = "returned",
                        !.result = ResultOf(fl.file, fl.blocks, fl.boundaries,
                                            fl.chunking_mode, fl.chunks)]
    /\ UNCHANGED <<sp, pdf, dir>>

\* main, single-file mode: exit 1 on None, else write the output
MainFinish ==
    /\ fl.pc = "returned"
    /\ fl.mode = "single"
    /\ fl' = IF ~fl.result.ok
             THEN [fl EXCEPT !.pc = "exited", !.exit = 1]
             ELSE [fl EXCEPT !.pc = "exited", !.exit = 0, !.written = TRUE]
    /\ UNCHANGED <<sp, pdf, dir>>

NextFile ==
    \/ MainSingleFile
    \/ EacCheckExtension
    \/ EacExtract
    \/ EacDetect
    \/ StructMerge
    \/ StructEmit
    \/ TokenChunks
    \/ EacReturn
    \/ MainFinish

SpecFile == InitFile /\ [][NextFile]_vars

(***************************************************************************)
(* chunk_by_structure called on its own with a block sequence and the      *)
(* boundaries detect_boundaries finds in it (SpecStruct).  The merge pass  *)
(* runs through StructMerge and StructEmit, as it does in SpecFile.        *)
(***************************************************************************)
\* the page of a block: 0 (unknown) or a page number
BlockPages == {0, 1, 2}

\* a numbered heading line whose title is one long word
LongWordLine == <<"1", ".", " ">> \o Rep("a", 9)

\* blocks of plain text, one heading line or one body line each
StructBlocks ==
    {TextBlock(text, page, 0, "plain", 0) :
        text \in {NumberedLine, BodyLine}, page \in BlockPages}
    \cup {TextBlock(LongWordLine, 0, 0, "plain", 0)}

InitStruct ==
    /\ \E blocks \in SeqsUpTo(StructBlocks, MaxLines),
          max_tokens \in 1..MaxBudget, overlap \in {0, MaxOverlap} :
         fl = [pc |-> "struct", blocks |-> blocks,
               boundaries |-> detect_boundaries(blocks),
               max_tokens |-> max_tokens, overlap |-> overlap,
               sections |-> <<>>, i |-> 0, m |-> MergeInit, chunks |-> <<>>]
    /\ sp = Idle /\ pdf = Idle /\ dir = Idle

\* chunk_by_structure: return [] without boundaries, else build the sections
StructBegin ==
    /\ fl.pc = "struct"
    /\ fl' = IF fl.boundaries = <<>>
             THEN [fl EXCEPT !.pc = "chunked", !.chunks = <<>>]
             ELSE [fl EXCEPT !.pc = "merge",
                             !.sections = BuildSections(fl.blocks, fl.boundaries),
                             !.i = 1]
    /\ UNCHANGED <<sp, pdf, dir>>

NextStruct ==
    \/ StructBegin
    \/ StructMerge
    \/ StructEmit

SpecStruct == InitStruct /\ [][NextStruct]_vars

(***************************************************************************)
(* detect_boundaries called on its own with the blocks an extractor gives  *)
(* for a file, one block at a time (SpecDetect).                           *)
(***************************************************************************)
\* text files with a run of empty lines, whole or interrupted, before a
\* body line, a numbered line or an upper-case line
BlankRunFiles ==
    LET e == <<>>
    IN  {TextFile(<<"r", "u", "n", "s", ".", "t", "x", "t">>, a \o gap \o <<line>>) :
            a \in {<<>>, <<NumberedLine>>},
            gap \in {<<e, e>>, <<e, e, e>>, <<e, e, e, e>>, <<e, e, BodyLine, e>>,
                     <<e, e, e, BodyLine, e, e>>},
            line \in {BodyLine, NumberedLine, CapsLine}}
        \cup {TextFile(<<"r", "u", "n", "s", ".", "m", "d">>, gap \o <<BodyLine>>) :
                gap \in {<<e, e, e, MarkdownHeadingLine>>,
                         <<e, e, MarkdownHeadingLine, e>>,
                         <<e, e, e, MarkdownHeadingLine, e, e, e>>}}

DetectFiles == TextFiles \cup GapFiles \cup BlankRunFiles \cup DocxFiles

InitDetect ==
    /\ \E file \in DetectFiles :
         fl = [pc |-> "detect", file |-> file, blocks |-> extract_file(file),
               d |-> DetectInit, boundaries |-> <<>>]
    /\ sp = Idle /\ pdf = Idle /\ dir = Idle

\* detect_boundaries: one iteration of the loop over the blocks
DetectBlock ==
    /\ fl.pc = "detect"
    /\ fl.d.seen < Len(fl.blocks)
    /\ fl' = [fl EXCEPT !.d = DetectStep(fl.d, fl.blocks, fl.d.seen + 1)]
    /\ UNCHANGED <<sp, pdf, dir>>

\* detect_boundaries returns the boundaries
DetectReturn ==
    /\ fl.pc = "detect"
    /\ fl.d.seen >= Len(fl.blocks)
    /\ fl' = [fl EXCEPT !.pc = "detected", !.boundaries = fl.d.boundaries]
    /\ UNCHANGED <<sp, pdf, dir>>

NextDetect ==
    \/ DetectBlock
    \/ DetectReturn

SpecDetect == InitDetect /\ [][NextDetect]_vars

(***************************************************************************)
(* extract_pdf, one backend call at a time (SpecPdf).                      *)
(***************************************************************************)
InitPdf ==
    /\ \E outcomes \in PdfOutcomes :
           pdf = [pc |-> "loop", outcomes |-> outcomes, i |-> 1,
                  blocks |-> <<>>, tried |-> <<>>, results |-> <<>>]
    /\ sp = Idle
    /\ fl = Idle
    /\ dir = Idle

\* one iteration of the loop over the extractors: call extractor k, return
\* its blocks when they are usable, otherwise go on; after the last
\* extractor the loop ends and the function returns what that one gave
PdfTry(k) ==
    /\ pdf.pc = "loop"
    /\ pdf.i = k
    /\ LET o == pdf.outcomes[k]
           blocks == RunBackend(k, o)
           called == [pdf EXCEPT !.tried = Append(@, PdfBackends[k])]
       IN  pdf' = IF Propagates(o)
                  THEN [called EXCEPT !.pc = "raised"]
                  ELSE LET ran == [called EXCEPT !.blocks = blocks,
                                                 !.results = Append(@, blocks)]
                       IN  IF Usable(blocks) \/ k = Len(PdfBackends)
                           THEN [ran EXCEPT !.pc = "returned"]
                           ELSE [ran EXCEPT !.i = k + 1]
    /\ UNCHANGED <<sp, fl, dir>>

TryPyMuPDF == PdfTry(1)

TryPdfplumber == PdfTry(2)

TryPdftotext == PdfTry(3)

NextPdf ==
    \/ TryPyMuPDF
    \/ TryPdfplumber
    \/ TryPdftotext

SpecPdf == InitPdf /\ [][NextPdf]_vars

(***************************************************************************)
(* main in directory mode (SpecDir).                                       *)
(***************************************************************************)
\* ord(c) for the characters file names are made of
Ord(c) ==
    IF c = "." THEN 46
    ELSE IF IsDigit(c) THEN 47 + (CHOOSE i \in DOMAIN DigitChars : DigitChars[i] = c)
    ELSE IF IsUpper(c) THEN 64 + (CHOOSE i \in DOMAIN UpperLetters : UpperLetters[i] = c)
    ELSE 96 + (CHOOSE i \in DOMAIN LowerLetters : LowerLetters[i] = c)

\* a < b for two strings
StrLess(a, b) ==
    \E k \in 1..(Len(a) + 1) :
        /\ \A j \in 1..(k - 1) : j <= Len(b) /\ a[j] = b[j]
        /\ k <= Len(b)
        /\ (k = Len(a) + 1 \/ Ord(a[k]) < Ord(b[k]))

RECURSIVE SortEntries(_)
SortEntries(S) ==
    IF S = {} THEN <<>>
    ELSE LET first == CHOOSE e \in S :
                          \A other \in S \ {e} : StrLess(e.file.name, other.file.name)
         IN  <<first>> \o SortEntries(S \ {first})

\* the directory listing left in the order os.listdir gave it
ListingOrder(listing) == listing

\* sorted(os.listdir(dirpath))
sorted(listing) == SortEntries(Range(listing))

RECURSIVE SupportedOf(_)
SupportedOf(entries) ==
    IF entries = <<>> THEN <<>>
    ELSE (IF Head(entries).is_file
             /\ Ext(Head(entries).file.name) \in SUPPORTED_EXTENSIONS
          THEN <<Head(entries).file>> ELSE <<>>)
         \o SupportedOf(Tail(entries))

find_supported_files(listing) == SupportedOf(sorted(listing))

\* what write_multi_file_output puts into metadata.json for one result
FileMetadata(results, idx) ==
    [file_index |-> idx,
     filename |-> results[idx].filename,
     chunking_mode |-> results[idx].chunking_mode,
     num_chunks |-> Len(results[idx].chunks)]

RECURSIVE TotalChunks(_)
TotalChunks(results) ==
    IF results = <<>> THEN 0
    ELSE Len(Head(results).chunks) + TotalChunks(Tail(results))

write_multi_file_output(results) ==
    [num_files |-> Len(results),
     total_chunks |-> TotalChunks(results),
     files |-> [idx \in 1..Len(results) |-> FileMetadata(results, idx)]]

\* nothing on disk
NoOutput == [num_files |-> 0, total_chunks |-> 0, files |-> <<>>]

\* the entries a directory may hold; the last is a sub-directory whose name
\* ends in a supported extension
MaxEntries == 3

Entry(file, is_file) == [file |-> file, is_file |-> is_file]

DirCatalog ==
    { Entry(TextFile(<<"b", ".", "t", "x", "t">>,
                     <<CapsLine, BodyLine, NumberedLine>>), TRUE),
      Entry(TextFile(<<"a", ".", "m", "d">>,
                     <<MarkdownHeadingLine, BodyLine, MarkdownHeadingLine, BodyLine,
                       MarkdownHeadingLine, BodyLine>>), TRUE),
      Entry(TextFile(<<"B", ".", "T", "X", "T">>,
                     <<BodyLine, BodyLine, BodyLine>>), TRUE),
      Entry(TextFile(<<"c", ".", "c", "s", "v">>,
                     <<BodyLine, BodyLine, BodyLine>>), TRUE),
      Entry(TextFile(<<"a", ".", "t", "x", "t">>, <<BodyLine>>), TRUE),
      Entry(File(<<"1", ".", "d", "o", "c", "x">>, FALSE, <<>>, NoBackends, <<>>, <<>>), TRUE),
      Entry(File(<<"g", ".", "p", "d", "f">>, TRUE, <<>>,
                 <<[kind |-> "missing"], [kind |-> "error"], [kind |-> "timeout"]>>,
                 <<>>, <<>>), TRUE),
      Entry(TextFile(<<"f", ".", "t", "x", "t">>, <<>>), FALSE) }

\* os.listdir: the entries of the directory, each once, in any order
Listings ==
    {l \in SeqsUpTo(DirCatalog, MaxEntries) \cup {<<>>} :
        \A i, j \in 1..Len(l) : i # j => l[i] # l[j]}

InitDir ==
    /\ \E listing \in Listings, max_tokens \in 1..MaxBudget, overlap \in {0, MaxOverlap} :
           dir = [pc |-> "scan", listing |-> listing,
                  max_tokens |-> max_tokens, overlap |-> overlap,
                  files |-> <<>>, i |-> 1, processed |-> <<>>,
                  results |-> <<>>, written |-> NoOutput, exit |-> -1]
    /\ sp = Idle
    /\ fl = Idle
    /\ pdf = Idle

\* files = find_supported_files(input_path); exit 1 when there is none
DirScan ==
    /\ dir.pc = "scan"
    /\ LET files == find_supported_files(dir.listing)
       IN  dir' = IF files = <<>>
                  THEN [dir EXCEPT !.pc = "exited", !.exit = 1]
                  ELSE [dir EXCEPT !.pc = "loop", !.files = files]
    /\ UNCHANGED <<sp, fl, pdf>>

\* one iteration of "for filepath in files"
DirProcess ==
    /\ dir.pc = "loop"
    /\ dir.i <= Len(dir.files)
    /\ LET file == dir.files[dir.i]
           result == extract_and_chunk(file, dir.max_tokens, dir.overlap)
       IN  dir' = [dir EXCEPT !.i = @ + 1,
                              !.processed = Append(@, file.name),
                              !.results = IF result.ok THEN Append(@, result) ELSE @]
    /\ UNCHANGED <<sp, fl, pdf>>

\* after the loop: exit 1 without results, else write_multi_file_output
DirFinish ==
    /\ dir.pc = "loop"
    /\ dir.i > Len(dir.files)
    /\ dir' = IF dir.results = <<>>
              THEN [dir EXCEPT !.pc = "exited", !.exit = 1]
              ELSE [dir EXCEPT !.pc = "exited", !.exit = 0,
                               !.written = write_multi_file_output(dir.results)]
    /\ UNCHANGED <<sp, fl, pdf>>

NextDir ==
    \/ DirScan
    \/ DirProcess
    \/ DirFinish

SpecDir == InitDir /\ [][NextDir]_vars

(***************************************************************************)
(* Claims about the sentence splitter (SpecSplit).                         *)
(***************************************************************************)
SplitDone == sp.pc = "done"

\* the sentences of chunk k that are not its overlap seed
Fresh(k) == SubSeq(sp.s.parts[k], Len(sp.s.seeds[k]) + 1, Len(sp.s.parts[k]))

Oversized(sentence) == count_tokens(sentence) > sp.max_tokens

\* C1: when the splitter has returned, every chunk's estimated token count
\* (count_tokens of its text) is at most max_tokens, unless the chunk holds a
\* sentence whose own estimate exceeds max_tokens.
C1_TokenChunksWithinBudget ==
    SplitDone =>
        \A k \in 1..Len(sp.result) :
            \/ count_tokens(sp.result[k]) <= sp.max_tokens
            \/ \E j \in 1..Len(sp.s.parts[k]) : Oversized(sp.s.parts[k][j])

\* C4: when the splitter has returned, a chunk that holds a sentence whose own
\* estimate exceeds max_tokens holds no other sentence.
C4_OversizedSentenceAlone ==
    SplitDone =>
        \A k \in 1..Len(sp.s.parts) :
            (\E j \in 1..Len(sp.s.parts[k]) : Oversized(sp.s.parts[k][j]))
                => Len(sp.s.parts[k]) = 1

\* The splitter always returns: every iteration consumes one sentence, and a
\* step is possible until it has returned.
SplitTerminates ==
    /\ [][sp.pc = "loop" =>
            \/ sp'.pc = "done"
            \/ Len(sp.sentences) - sp'.i < Len(sp.sentences) - sp.i]_vars
    /\ [](sp.pc = "loop" => sp.i <= Len(sp.sentences) + 1)

\* the overlap seed `seed`, carried from the finalized sentence list `final`,
\* is a contiguous suffix of it, within the overlap budget by the splitter's
\* running count, and cannot be extended backward within the budget
SeedOk(seed, final) ==
    LET n == Len(final)
        m == Len(seed)
    IN  /\ m <= n
        /\ seed = SubSeq(final, n - m + 1, n)
        /\ SumTokens(seed) <= sp.overlap
        /\ (m < n => SumTokens(seed) + count_tokens(final[n - m]) > sp.overlap)
        /\ (sp.overlap = 0 => \A j \in 1..m : count_tokens(seed[j]) = 0)

Emitted == fl.pc \in {"chunked", "returned", "exited"} /\ fl.chunked

IsSuffixOf(a, b) == Len(a) <= Len(b) /\ SubSeq(b, Len(b) - Len(a) + 1, Len(b)) = a

\* C2: every emitted chunk's recorded `tokens` equals count_tokens of its
\* final text, in both chunking modes.
C2_TokensMatchText ==
    Emitted =>
        \A k \in 1..Len(fl.chunks) :
            fl.chunks[k].tokens = count_tokens(fl.chunks[k].text)

\* C6: every chunk of the structure-aware chunker has at most max_tokens
\* tokens, except a split piece that is a single sentence which alone exceeds
\* max_tokens.
C6_StructureChunksWithinBudget ==
    Emitted /\ fl.chunking_mode = "structure_aware" =>
        \A k \in 1..Len(fl.chunks) :
            \/ fl.chunks[k].tokens <= fl.max_tokens
            \/ /\ fl.m.origin[k].piece >= 1
               /\ Len(SplitSentences(fl.chunks[k].text)) = 1
               /\ count_tokens(fl.chunks[k].text) > fl.max_tokens

\* the text of sections first..last as the merge pass concatenates them
SourceText(first, last) ==
    Join([j \in 1..(last - first + 1) |-> fl.sections[first + j - 1].text], BlankLine)

\* structure-aware mode: the chunks partition the section list in order; a
\* chunk that is not a split piece is the text of its sections, the pieces
\* of a split are the splitter's pieces, in the splitter's order
StructureInSourceOrder ==
    LET o == fl.m.origin
        n == Len(fl.chunks)
    IN  /\ Len(o) = n /\ n >= 1
        /\ o[1].first = 1 /\ o[n].last = Len(fl.sections)
        /\ \A k \in 1..n : o[k].first <= o[k].last
        /\ \A k \in 1..(n - 1) :
              \/ o[k + 1].first = o[k].last + 1 /\ o[k + 1].piece <= 1
              \/ /\ o[k + 1].first = o[k].first /\ o[k + 1].last = o[k].last
                 /\ o[k].piece >= 1 /\ o[k + 1].piece = o[k].piece + 1
        /\ \A k \in 1..n :
              IF o[k].piece = 0
              THEN fl.chunks[k].text = SourceText(o[k].first, o[k].last)
              ELSE fl.chunks[k].text =
                      split_text_by_tokens(SourceText(o[k].first, o[k].last),
                                           fl.max_tokens, fl.overlap)[o[k].piece]

\* token-based mode: chunk k ends with the sentences that follow those of
\* chunk k - 1, up to the last sentence of the text
TokensInSourceOrder ==
    LET text == blocks_to_text(fl.blocks)
        sentences == SplitSentences(text)
        ends == SplitTrace(text, fl.max_tokens, fl.overlap).ends
        n == Len(fl.chunks)
        from(k) == IF k = 1 THEN 1 ELSE ends[k - 1] + 1
    IN  /\ Len(ends) = n /\ n >= 1
        /\ ends[n] = Len(sentences)
        /\ \A k \in 1..n :
              /\ from(k) <= ends[k]
              /\ IsSuffixOf(Join(SubSeq(sentences, from(k), ends[k]), <<" ">>),
                            fl.chunks[k].text)

\* C7: in both chunking modes the chunk ids are 1, 2, ..., n in list order and
\* the list follows the order of the sections / sentences the chunks were
\* built from.
C7_IdsContiguousInSourceOrder ==
    fl.pc = "chunked" =>
        /\ \A k \in 1..Len(fl.chunks) : fl.chunks[k].id = k
        /\ fl.chunking_mode = "structure_aware" => StructureInSourceOrder
        /\ fl.chunking_mode = "token_based" => TokensInSourceOrder

\* a structure-aware run that emitted a merged chunk and the pieces of a split
C7_Witness ==
    /\ Emitted /\ fl.chunking_mode = "structure_aware"
    /\ Len(fl.chunks) >= 3
    /\ \E k \in 1..Len(fl.chunks) : fl.m.origin[k].piece >= 2
    /\ \E k \in 1..Len(fl.chunks) :
          fl.m.origin[k].piece = 0 /\ fl.m.origin[k].first < fl.m.origin[k].last

\* the boundaries of confidence >= 0.7 that detection finds in the blocks
Reliable(blocks) ==
    LET bs == detect_boundaries(blocks)
    IN  SelectSeq(bs, LAMBDA b : b.confidence >= 70)

\* C3: for a block sequence that passes the minimum-text check, fewer than 3
\* boundaries of confidence >= 0.7 give chunking_mode "token_based" with the
\* chunks of chunk_by_tokens over all blocks; 3 or more give
\* "structure_aware" with the chunks of chunk_by_structure on exactly those
\* boundaries.
C3_ModeSelection ==
    fl.pc = "returned" /\ fl.result.ok =>
        LET reliable == Reliable(fl.blocks)
        IN  /\ Len(reliable) < 3 =>
                  /\ fl.result.chunking_mode = "token_based"
                  /\ fl.result.chunks =
                        chunk_by_tokens(fl.blocks, fl.max_tokens, fl.overlap)
            /\ Len(reliable) >= 3 =>
                  /\ fl.result.chunking_mode = "structure_aware"
                  /\ fl.result.chunks =
                        chunk_by_structure(fl.blocks, reliable,
                                           fl.max_tokens, fl.overlap)

\* a structure-aware result for a file with exactly three boundaries of
\* confidence >= 0.7 and one of lower confidence
C3_Witness ==
    /\ fl.pc = "returned" /\ fl.result.ok
    /\ fl.result.chunking_mode = "structure_aware"
    /\ Len(Reliable(fl.blocks)) = 3
    /\ Len(detect_boundaries(fl.blocks)) = 4

Unsupported ==
    Ext(fl.file.name) \notin {DotPdf, DotDocx, DotTxt, DotMd, DotMarkdown}

\* the characters the extractor of the file's type yields
ExtractedChars == TotalChars(extract_file(fl.file))

\* C10: with an unsupported extension or fewer than 50 extracted characters
\* extract_and_chunk returns None, makes no chunks and runs neither boundary
\* detection nor chunking; with 50 characters or more it returns a result; in
\* single-file mode None ends the run with exit status 1 and nothing
\* written.
C10_SkipsUnusableFiles ==
    LET usable == ~Unsupported /\ ExtractedChars >= 50
    IN  /\ ~usable =>
              /\ ~fl.result.ok /\ fl.chunks = <<>>
              /\ ~fl.detected /\ ~fl.chunked
              /\ fl.pc = "exited" => fl.exit = 1 /\ ~fl.written
        /\ fl.pc = "returned" => (fl.result.ok <=> usable)
        /\ fl.pc = "exited" => (fl.exit = 1 <=> ~fl.result.ok)
        /\ fl.pc = "exited" => (fl.written <=> fl.result.ok)

\* a supported file of 49 extracted characters ended the single-file run
\* with exit status 1
C10_Witness ==
    /\ fl.pc = "exited" /\ fl.mode = "single"
    /\ ~Unsupported /\ ExtractedChars = 49
    /\ fl.exit = 1 /\ ~fl.written

\* a supported file of exactly 50 extracted characters was chunked and written
FiftyCharsAccepted ==
    /\ fl.pc = "exited" /\ ExtractedChars = 50 /\ fl.written

(***************************************************************************)
(* Claims about extract_pdf (SpecPdf).                                     *)
(***************************************************************************)
PdfCalls == Len(pdf.tried)

\* C8: extract_pdf calls the backends in the order PyMuPDF, pdfplumber,
\* pdftotext; a later backend is called only when every earlier one failed or
\* gave at most 100 characters; it returns the blocks of the first backend
\* with more than 100 characters, and the last backend's result when none has;
\* a missing, failing or timed-out backend gives no blocks and no exception
\* reaches the caller.
C8_PdfCascade ==
    /\ pdf.pc \in {"loop", "returned"}
    /\ pdf.tried = SubSeq(PdfBackends, 1, PdfCalls)
    /\ Len(pdf.results) = PdfCalls
    /\ \A j \in 1..PdfCalls :
           pdf.outcomes[j].kind \in {"missing", "error", "timeout"}
               => pdf.results[j] = <<>>
    /\ \A j \in 1..(PdfCalls - 1) : TotalChars(pdf.results[j]) <= 100
    /\ pdf.pc = "loop" =>
           /\ PdfCalls < 3
           /\ PdfCalls > 0 => TotalChars(pdf.results[PdfCalls]) <= 100
           /\ pdf.i = PdfCalls + 1
    /\ pdf.pc = "returned" =>
           /\ PdfCalls >= 1
           /\ pdf.blocks = pdf.results[PdfCalls]
           /\ TotalChars(pdf.blocks) > 100 \/ PdfCalls = 3

\* all three backends were called: the first read exactly 100 characters,
\* pdftotext timed out, and the empty result of pdftotext is returned
C8_Witness ==
    /\ pdf.pc = "returned"
    /\ PdfCalls = 3
    /\ TotalChars(pdf.results[1]) = 100
    /\ pdf.outcomes[3].kind = "timeout"
    /\ pdf.blocks = <<>>

(***************************************************************************)
(* Claims about directory mode (SpecDir).                                  *)
(***************************************************************************)
\* the names of the regular files of the listing with a supported extension
SupportedNames ==
    {dir.listing[k].file.name : k \in {j \in 1..Len(dir.listing) :
        /\ dir.listing[j].is_file
        /\ Lower(Suffix(dir.listing[j].file.name))
               \in {DotPdf, DotDocx, DotTxt, DotMd, DotMarkdown}}}

\* the file of the listing with this name
Named(name) ==
    (CHOOSE e \in Range(dir.listing) : e.file.name = name).file

\* the file can be read and holds at least 50 characters of text
Succeeds(name) ==
    LET file == Named(name)
    IN  /\ file.readable
        /\ TotalChars(extract_file(file)) >= 50

RECURSIVE Successful(_)
\* the names that succeed, in the order given
Successful(names) ==
    IF names = <<>> THEN <<>>
    ELSE (IF Succeeds(Head(names)) THEN <<Head(names)>> ELSE <<>>)
         \o Successful(Tail(names))

WrittenNames == [k \in 1..Len(dir.written.files) |-> dir.written.files[k].filename]

\* C9: in directory mode the supported files are processed one at a time in
\* sorted name order; a file that cannot be read or holds too little text is
\* skipped and the files after it are still processed; the output lists
\* exactly the files that succeeded, in processing order, with num_files
\* their count; the run exits with status 1 and writes nothing exactly when
\* no file produced a result.
C9_DirectoryMode ==
    /\ \A k \in 1..Len(dir.processed) :
           /\ dir.processed[k] \in SupportedNames
           /\ \A j \in 1..(k - 1) : StrLess(dir.processed[j], dir.processed[k])
           /\ \A n \in SupportedNames :
                  StrLess(n, dir.processed[k]) => \E j \in 1..(k - 1) : dir.processed[j] = n
    /\ dir.pc = "loop" =>
           [k \in 1..Len(dir.results) |-> dir.results[k].filename]
               = Successful(dir.processed)
    /\ dir.pc = "exited" =>
           /\ Range(dir.processed) = SupportedNames
           /\ WrittenNames = Successful(dir.processed)
           /\ dir.written.num_files = Len(Successful(dir.processed))
           /\ dir.exit \in {0, 1}
           /\ dir.exit = 1 <=> Successful(dir.processed) = <<>>
           /\ dir.exit = 1 => dir.written = NoOutput

\* three supported files were listed out of name order; the second in name
\* order was skipped, and the other two were written as files 1 and 2
C9_Witness ==
    /\ dir.pc = "exited"
    /\ Len(dir.processed) = 3
    /\ StrLess(dir.listing[2].file.name, dir.listing[1].file.name)
    /\ ~Succeeds(dir.processed[2])
    /\ dir.written.num_files = 2
    /\ WrittenNames = <<dir.processed[1], dir.processed[3]>>
    /\ dir.exit = 0

(***************************************************************************)
(* Claims about the token estimator (SpecCount).                           *)
(***************************************************************************)
\* C11: without a tokenizer count_tokens returns max(1, len(text) // 4), so
\* its result is at least 1 for every text, the empty string and texts of
\* fewer than 4 characters included.
C11_EstimateAtLeastOne ==
    sp.pc = "counted" =>
        /\ sp.tokens = (IF Len(sp.text) \div 4 > 1 THEN Len(sp.text) \div 4 ELSE 1)
        /\ sp.tokens >= 1

(***************************************************************************)
(* Claims about the chunkers, continued (SpecFile).                        *)
(***************************************************************************)
\* the largest page number among the blocks, 1 when no block has a page
PageCount == IF Pages(fl.blocks) # {} THEN Max(Pages(fl.blocks)) ELSE 1

\* C12: every chunk of chunk_by_tokens has 1 <= start_page <= end_page <=
\* total page count, the largest page number among the blocks (1 when no
\* block carries a page).
C12_TokenChunkPagesInRange ==
    fl.pc = "chunked" /\ fl.chunking_mode = "token_based" =>
        \A k \in 1..Len(fl.chunks) :
            /\ 1 <= fl.chunks[k].start_page
            /\ fl.chunks[k].start_page <= fl.chunks[k].end_page
            /\ fl.chunks[k].end_page <= PageCount

(***************************************************************************)
(* Claims about chunk_by_structure on its own (SpecStruct).                *)
(***************************************************************************)
\* the blocks hold text and no boundary was found in them: the document is
\* a preamble and nothing else
PreambleOnly ==
    /\ fl.boundaries = <<>>
    /\ fl.blocks # <<>>
    /\ \A k \in 1..Len(fl.blocks) : ~IsBlank(fl.blocks[k].text)

\* C13: given a document that consists only of a preamble (blocks with
\* non-whitespace text, no section boundary), the structure-aware chunker
\* returns exactly one chunk.
C13_PreambleOnlyOneChunk ==
    fl.pc = "chunked" /\ PreambleOnly => Len(fl.chunks) = 1

(***************************************************************************)
(* Claims about the merge pass of chunk_by_structure, one iteration at a   *)
(* time (SpecFile).                                                        *)
(***************************************************************************)
\* the merge pass is about to go through section fl.i
AtSection == fl.pc = "merge" /\ fl.i <= Len(fl.sections)

IsPrefixOf(a, b) == Len(a) <= Len(b) /\ SubSeq(b, 1, Len(a)) = a

\* the section at hand is oversized and a buffer is pending
OversizedAfterBuffer ==
    /\ AtSection
    /\ fl.sections[fl.i].tokens > fl.max_tokens
    /\ fl.m.buffer # <<>>

\* what the iteration appends to `merged`
Appended == SubSeq(fl'.m.merged, Len(fl.m.merged) + 1, Len(fl'.m.merged))

\* the iteration empties the buffer; a buffer under 100 tokens gets no chunk
\* and the pieces are the splitter's pieces of its text, a blank line and the
\* section's text; any other buffer is appended as it is, right before the
\* splitter's pieces of the section's text
BufferPrependedOrFlushed ==
    LET buffer == fl.m.buffer[1]
        section == fl.sections[fl.i]
        pieces(text) == split_text_by_tokens(text, fl.max_tokens, fl.overlap)
        texts == [k \in 1..Len(Appended) |-> Appended[k].text]
    IN  /\ fl'.m.buffer = <<>>
        /\ IsPrefixOf(fl.m.merged, fl'.m.merged)
        /\ IF buffer.tokens < TinyTokens
           THEN texts = pieces(buffer.text \o <<"\n", "\n">> \o section.text)
           ELSE /\ Appended # <<>> /\ Appended[1] = buffer
                /\ Tail(texts) = pieces(section.text)

\* C14 (as amended): when an oversized section arrives while a buffer is
\* pending, a buffer of fewer than 100 tokens gets no chunk of its own and its
\* text, followed by a blank line, is prepended to the section's text before
\* splitting; otherwise the buffer is emitted as a complete chunk immediately
\* before the section's pieces; in both cases the buffer is empty afterwards.
C14_BufferPrependedOrFlushed ==
    [][OversizedAfterBuffer => BufferPrependedOrFlushed]_vars

\* C14 (as stated): the same, and the text of a buffer of fewer than 100
\* tokens appears at the start of the first piece.
C14_BufferTextStartsFirstPiece ==
    [][OversizedAfterBuffer =>
          /\ BufferPrependedOrFlushed
          /\ fl.m.buffer[1].tokens < TinyTokens =>
                /\ Appended # <<>>
                /\ IsPrefixOf(fl.m.buffer[1].text, Appended[1].text)]_vars

\* a buffer of 100 tokens or more was emitted right before the first piece
\* of the oversized section after it
BufferFlushedBeforePieces ==
    /\ fl.pc = "merge"
    /\ \E k \in 2..Len(fl.m.origin) :
          /\ fl.m.origin[k].piece = 1 /\ fl.m.origin[k - 1].piece = 0
          /\ fl.m.merged[k - 1].tokens >= TinyTokens

\* a tiny buffer went into the pieces of the oversized section after it
C14_Witness ==
    /\ fl.pc = "merge"
    /\ \E k \in 1..Len(fl.m.origin) :
          /\ fl.m.origin[k].piece = 1
          /\ fl.m.origin[k].first < fl.m.origin[k].last
          /\ Len(fl.m.merged[k].text) > 0

(***************************************************************************)
(* Claims about the merge pass of chunk_by_structure called on its own     *)
(* (SpecStruct).                                                           *)
(***************************************************************************)
\* the entries the iteration appends to `merged` after the flushed buffer
NewPieces ==
    IF fl.m.buffer # <<>> /\ fl.m.buffer[1].tokens >= TinyTokens
    THEN Tail(Appended) ELSE Appended

\* the pieces of the section at hand: in order, each with the section's
\* level and page range, numbered "(part j)" when there are several
PiecesOfSection ==
    LET section == fl.sections[fl.i]
        k == Len(NewPieces)
        prepend_text ==
            IF fl.m.buffer # <<>> /\ fl.m.buffer[1].tokens < TinyTokens
            THEN fl.m.buffer[1].text \o <<"\n", "\n">> ELSE <<>>
    IN  /\ k >= 1
        /\ fl'.m.buffer = <<>>
        /\ [j \in 1..k |-> NewPieces[j].text] =
              split_text_by_tokens(prepend_text \o section.text,
                                   fl.max_tokens, fl.overlap)
        /\ \A j \in 1..k :
              /\ NewPieces[j].heading =
                    section.heading \o
                    (IF k > 1
                     THEN <<" ", "(", "p", "a", "r", "t", " ">> \o IntToStr(j) \o <<")">>
                     ELSE <<>>)
              /\ NewPieces[j].level = section.level
              /\ NewPieces[j].start_page = section.start_page
              /\ NewPieces[j].end_page = section.end_page
              /\ fl'.m.origin[Len(fl'.m.merged) - k + j].piece = j
              /\ fl'.m.origin[Len(fl'.m.merged) - k + j].last = fl.i

\* the section at hand goes into the buffer whole
KeptWhole ==
    /\ fl'.m.buffer # <<>>
    /\ IsSuffixOf(fl.sections[fl.i].text, fl'.m.buffer[1].text)
    /\ Appended \in {<<>>, fl.m.buffer}

\* C15: a section is split if and only if its token count is strictly
\* greater than max_tokens; the k > 1 pieces of a split are emitted
\* consecutively, in order, with headings "<heading> (part 1)" ..
\* "<heading> (part k)" and the section's level and page range; a single
\* piece carries no suffix.
C15_SplitOnlyOverBudget ==
    [][AtSection =>
          IF fl.sections[fl.i].tokens > fl.max_tokens
          THEN PiecesOfSection ELSE KeptWhole]_vars

\* a section of exactly max_tokens tokens was kept whole and a later one was
\* split into several pieces
C15_Witness ==
    /\ fl.pc = "merge"
    /\ \E j \in 1..(fl.i - 1) : fl.sections[j].tokens = fl.max_tokens
    /\ \E k \in 1..Len(fl.m.origin) : fl.m.origin[k].piece = 2

\* an oversized section came back from the splitter in one piece
OnePieceSplit ==
    /\ fl.pc = "merge"
    /\ \E k \in 1..Len(fl.m.origin) :
          /\ fl.m.origin[k].piece = 1
          /\ fl.m.merged[k].tokens > fl.max_tokens
          /\ (k = Len(fl.m.origin) \/ fl.m.origin[k + 1].piece # 2)

\* the sections the pending buffer was built from
BufferSections == fl.m.pending..(fl.i - 1)

\* the positive pages of the sections the pending buffer was built from
BufferPages ==
    ({fl.sections[j].start_page : j \in BufferSections}
        \cup {fl.sections[j].end_page : j \in BufferSections}) \ {0}

AbsorbsSection ==
    /\ AtSection
    /\ fl.sections[fl.i].tokens <= fl.max_tokens
    /\ fl.m.buffer # <<>>
    /\ \/ fl.m.buffer[1].tokens < TinyTokens
       \/ 10 * (fl.m.buffer[1].tokens + fl.sections[fl.i].tokens) < 8 * fl.max_tokens

IsPreamble(heading) == heading = <<"P", "r", "e", "a", "m", "b", "l", "e">>

\* C17: when the merge pass absorbs a section, the buffer's heading becomes
\* the section's heading if the summed token count is still below 100, else
\* "<buffer heading> / <section heading>", and stays as it is when both
\* headings are "Preamble"; the buffer's level does not change.
C17_HeadingAfterAbsorb ==
    [][AbsorbsSection =>
          LET buffer == fl.m.buffer[1]
              section == fl.sections[fl.i]
          IN  /\ fl'.m.buffer # <<>>
              /\ fl'.m.buffer[1].tokens = buffer.tokens + section.tokens
              /\ fl'.m.buffer[1].level = buffer.level
              /\ fl'.m.buffer[1].heading =
                    IF IsPreamble(buffer.heading) /\ IsPreamble(section.heading)
                    THEN buffer.heading
                    ELSE IF buffer.tokens + section.tokens < TinyTokens
                    THEN section.heading
                    ELSE buffer.heading \o <<" ", "/", " ">> \o section.heading]_vars

\* a buffer of 100 tokens or more took in a section and carries both headings
C17_Witness ==
    /\ fl.pc = "merge"
    /\ fl.m.buffer # <<>>
    /\ Cardinality(BufferSections) = 2
    /\ fl.m.buffer[1].tokens >= TinyTokens
    /\ fl.m.buffer[1].heading =
          fl.sections[fl.m.pending].heading \o <<" ", "/", " ">>
              \o fl.sections[fl.i - 1].heading

\* a preamble of 100 tokens or more took in a section titled "Preamble"
PreambleAbsorbsPreamble ==
    /\ fl.pc = "merge"
    /\ fl.m.buffer # <<>>
    /\ Cardinality(BufferSections) = 2
    /\ fl.m.buffer[1].tokens >= TinyTokens
    /\ fl.m.buffer[1].level = 0
    /\ IsPreamble(fl.m.buffer[1].heading)
    /\ IsPreamble(fl.sections[fl.i - 1].heading)

\* a tiny buffer took in a section and is still tiny
TinyAbsorbs ==
    /\ fl.pc = "merge"
    /\ fl.m.buffer # <<>>
    /\ Cardinality(BufferSections) = 2
    /\ fl.m.buffer[1].tokens < TinyTokens
    /\ fl.m.buffer[1].heading = fl.sections[fl.i - 1].heading
    /\ fl.m.buffer[1].heading # fl.sections[fl.m.pending].heading

(***************************************************************************)
(* Claims about detect_boundaries (SpecDetect).                            *)
(***************************************************************************)
\* block k is a heading marked by its extractor
PreMarked(k) == fl.blocks[k].confidence >= 90 /\ fl.blocks[k].heading_level > 0

\* block k counts as blank
BlankAt(k) == Strip(fl.blocks[k].text) = <<>> /\ ~PreMarked(k)

\* the boundaries found at block k
BoundariesAt(k) ==
    {j \in 1..Len(fl.d.boundaries) : fl.d.boundaries[j].index = k - 1}

\* the blank blocks at the end of the first n blocks
RECURSIVE TrailingBlanks(_)
TrailingBlanks(n) ==
    IF n = 0 \/ ~BlankAt(n) THEN 0 ELSE 1 + TrailingBlanks(n - 1)

\* block k is a candidate for the low-confidence boundary
GapCandidate(k) ==
    /\ ~BlankAt(k) /\ ~PreMarked(k)
    /\ PatternConfidence(Strip(fl.blocks[k].text)) = 0
    /\ ~AllCapsHeader(Strip(fl.blocks[k].text))
    /\ k > 3
    /\ \A j \in (k - 3)..(k - 1) : BlankAt(j)

\* C18: detect_boundaries emits a confidence-0.3, level-1 boundary at block i
\* exactly when i is non-blank, not a pre-marked heading, matches no pattern,
\* fails the ALL-CAPS heuristic and the 3 or more blocks right before it are
\* all blank; the blank-run counter is 0 after every non-blank block and
\* every pre-marked heading, so an interrupted run never counts.
C18_LowConfidenceAfterBlankRun ==
    fl.pc \in {"detect", "detected"} =>
        /\ \A k \in 1..fl.d.seen :
              /\ GapCandidate(k) <=>
                    \E j \in BoundariesAt(k) : fl.d.boundaries[j].confidence = 30
              /\ \A j \in BoundariesAt(k) :
                    fl.d.boundaries[j].confidence = 30 => fl.d.boundaries[j].level = 1
        /\ fl.d.blank_count = TrailingBlanks(fl.d.seen)

\* a low-confidence boundary after a run of blanks, in a file where an
\* earlier block after an interrupted run has none
C18_Witness ==
    /\ fl.pc = "detected"
    /\ \E j \in 1..Len(fl.boundaries) : fl.boundaries[j].confidence = 30
    /\ \E k \in 4..Len(fl.blocks) :
          /\ ~BlankAt(k) /\ BlankAt(k - 1) /\ BlankAt(k - 2) /\ ~BlankAt(k - 3)
          /\ BoundariesAt(k) = {}

\* C19: every boundary detect_boundaries returns, for the blocks of any
\* extraction path, has a level in 1..4, and a block yields at most one
\* boundary: the boundary indices are strictly increasing and within the
\* block sequence.
C19_LevelsAndIndicesInRange ==
    fl.pc = "detected" =>
        /\ \A j \in 1..Len(fl.boundaries) :
              /\ fl.boundaries[j].level \in 1..4
              /\ fl.boundaries[j].index \in 0..(Len(fl.blocks) - 1)
        /\ \A j \in 1..(Len(fl.boundaries) - 1) :
              fl.boundaries[j].index < fl.boundaries[j + 1].index

(***************************************************************************)
(* Claims about what the chunks keep of the document (SpecFile).           *)
(***************************************************************************)
\* the characters of a text that are not whitespace, in order
NonSpace(t) == SelectSeq(t, LAMBDA c : ~IsSpace(c))

\* the overlap seed each token-based chunk started from
TokenSeeds ==
    SplitTrace(blocks_to_text(fl.blocks), fl.max_tokens, fl.overlap).seeds

\* the overlap seed each structure-aware chunk started from: none for a
\* chunk that is not a split piece
StructureSeeds ==
    [k \in 1..Len(fl.m.origin) |->
        IF fl.m.origin[k].piece = 0 THEN <<>>
        ELSE SplitTrace(SourceText(fl.m.origin[k].first, fl.m.origin[k].last),
                        fl.max_tokens, fl.overlap).seeds[fl.m.origin[k].piece]]

\* with `seeds` the overlap seed of each chunk: a chunk starts with its seed,
\* the seed is the end of the chunk before it, and what the chunks hold after
\* their seeds is, in chunk order, the whole text of the blocks; all up to
\* whitespace
KeepsAllText(seeds) ==
    LET n == Len(fl.chunks)
        body(k) == NonSpace(fl.chunks[k].text)
        seed(k) == NonSpace(Join(seeds[k], <<" ">>))
        fresh(k) == SubSeq(body(k), Len(seed(k)) + 1, Len(body(k)))
    IN  /\ Len(seeds) = n
        /\ n >= 1 /\ seeds[1] = <<>>
        /\ \A k \in 1..n : IsPrefixOf(seed(k), body(k))
        /\ \A k \in 2..n : IsSuffixOf(seed(k), body(k - 1))
        /\ Flatten([k \in 1..n |-> fresh(k)]) = NonSpace(blocks_to_text(fl.blocks))

\* the blocks before the first section of chunk_by_structure
OmittedBlocks ==
    LET first == SortByIndex(fl.high_conf)[1].index
    IN  IF fl.sections[1].level = 0 /\ Len(fl.sections) = Len(fl.high_conf) + 1
        THEN {} ELSE 1..first

Contains(hay, needle) ==
    LET n == Len(needle)
    IN  \E i \in {j \in 0..(Len(hay) - n) :
                      hay[j + n] = needle[n] /\ hay[j + 1] = needle[1]} :
            SubSeq(hay, i + 1, i + n) = needle

\* every sentence of the concatenated block text that is not all whitespace
\* is, whitespace aside, a contiguous part of some chunk's text
EverySentenceInAChunk ==
    LET sentences == SplitSentences(blocks_to_text(fl.blocks))
        bodies == [k \in 1..Len(fl.chunks) |-> NonSpace(fl.chunks[k].text)]
    IN  \A i \in 1..Len(sentences) :
            LET sentence == NonSpace(sentences[i])
            IN  sentence # <<>> =>
                    \E k \in 1..Len(bodies) : Contains(bodies[k], sentence)

SentenceCutAtSection ==
    /\ fl.pc = "chunked" /\ fl.chunking_mode = "structure_aware"
    /\ ~EverySentenceInAChunk

\* token-based mode keeps every sentence whole
TokenSentencesWhole ==
    fl.pc = "chunked" /\ fl.chunking_mode = "token_based" => EverySentenceInAChunk

BlankPreambleOmitted ==
    /\ fl.pc = "chunked" /\ fl.chunking_mode = "structure_aware"
    /\ OmittedBlocks # {}
    /\ \E k \in 2..Len(fl.chunks) : StructureSeeds[k] # <<>>

====
